---- MODULE Spec2Model ----
(***************************************************************************)
(* Model of essay-quality-ranker.py: the per-document scoring pipeline    *)
(* (llm_edit_score, grammar_error_score, readability_score,               *)
(* composite_score), the cache orchestration of process_file and the      *)
(* scoring loop and final sort of main.                                    *)
(*                                                                         *)
(* Numbers.  Python floats are held in fixed point:                        *)
(*   llm_score          integer points (an int in the code),               *)
(*   grammar_score      hundredths of a point,                             *)
(*   readability_score  hundredths of a point,                             *)
(*   weights            tenths (0.6 is 6),                                 *)
(*   composite_score    thousandths of a point (tenths * hundredths),      *)
(*   fk / flesch        tenths (the textstat metrics).                     *)
(*                                                                         *)
(* Text.  A str is a sequence of symbols.  The symbols of a judgment       *)
(* response are " " and "NL" (whitespace), "BT" (a backtick), "j", "s",    *)
(* "o", "n", "x" (prose), "{", "}", "[]" (the text of a JSON array), "7"   *)
(* (the text of a JSON number) and one symbol per object member, e.g.      *)
(* "E65" for the text "edit_effort": 65 (MemberKey and MemberVal give what *)
(* it parses to).                                                          *)
(***************************************************************************)
EXTENDS Integers, Sequences, FiniteSets, TLC

VARIABLES
    listing,    \* the folder: args.folder.glob("**/*.md") in the order glob yields it
    docs,       \* the folder: path -> what the document's text is to the capabilities
    cache,      \* .cache_edit_scores: stem -> text of <stem>.json, NoFile if absent
    pc,         \* where main is: "idle", "running", "done", "aborted", "exited"
    md_files,   \* main: the files of this run
    idx,        \* main: how many of md_files the for loop has processed
    results,    \* main: the list of records
    weights,    \* main: args.weights
    calls,      \* capability -> stem -> number of invocations so far
    reply,      \* the outcome of the latest call of the judgment capability in this run
    runs        \* number of times main was started

vars == <<listing, docs, cache, pc, md_files, idx, results, weights, calls, reply, runs>>

----------------------------------------------------------------------------
(* Bounds *)

MaxRuns == 3
MaxMatches == 3

----------------------------------------------------------------------------
(* Python builtins used by the code *)

min(a, b) == IF b < a THEN b ELSE a
max(a, b) == IF b > a THEN b ELSE a

WS == {" ", "NL"}

RECURSIVE lstrip(_)
lstrip(s) == IF s # <<>> /\ Head(s) \in WS THEN lstrip(Tail(s)) ELSE s

RECURSIVE rstrip(_)
rstrip(s) ==
    IF s # <<>> /\ s[Len(s)] \in WS THEN rstrip(SubSeq(s, 1, Len(s) - 1)) ELSE s

strip(s) == rstrip(lstrip(s))

startswith(s, p) == Len(s) >= Len(p) /\ SubSeq(s, 1, Len(p)) = p
endswith(s, p) == Len(s) >= Len(p) /\ SubSeq(s, Len(s) - Len(p) + 1, Len(s)) = p

\* s.find(c) and s.rfind(c) as 1-based positions, 0 when c is not in s
find(s, c) ==
    IF \E i \in 1..Len(s) : s[i] = c
    THEN CHOOSE i \in 1..Len(s) : s[i] = c /\ \A k \in 1..(i - 1) : s[k] # c
    ELSE 0
rfind(s, c) ==
    IF \E i \in 1..Len(s) : s[i] = c
    THEN CHOOSE i \in 1..Len(s) : s[i] = c /\ \A k \in (i + 1)..Len(s) : s[k] # c
    ELSE 0

\* s[:n]
Take(s, n) == SubSeq(s, 1, min(n, Len(s)))

\* the message of an exception: n symbols naming the exception
Msg(tag, n) == [i \in 1..n |-> tag]

Raise(tag, n) == [exc |-> TRUE, msg |-> Msg(tag, n), type |-> "", members |-> <<>>]

----------------------------------------------------------------------------
(* json.loads of a judgment response *)

IntVal(k) == [type |-> "int", n |-> k, s |-> <<>>]
FloatVal(tenths) == [type |-> "float", n |-> tenths, s |-> <<>>]
StrVal(chars) == [type |-> "str", n |-> 0, s |-> chars]
NullVal == [type |-> "null", n |-> 0, s |-> <<>>]

EffortMembers ==
    {"E65", "E0", "E150", "E-5", "E65.7", "E'70'", "E'abc'", "Enull",
     "E10", "E30", "E40", "E80", "E90"}
NotesMembers == {"N'x'", "N' x '", "N''", "N' '", "Nnull", "N7"}
MemberTokens == EffortMembers \cup NotesMembers

MemberKey(tok) == IF tok \in EffortMembers THEN "edit_effort" ELSE "notes"

MemberVal(tok) ==
    CASE tok = "E65" -> IntVal(65)
      [] tok = "E0" -> IntVal(0)
      [] tok = "E150" -> IntVal(150)
      [] tok = "E-5" -> IntVal(-5)
      [] tok = "E65.7" -> FloatVal(657)
      [] tok = "E'70'" -> StrVal(<<"7", "0">>)
      [] tok = "E'abc'" -> StrVal(<<"a", "b", "c">>)
      [] tok = "Enull" -> NullVal
      [] tok = "E10" -> IntVal(10)
      [] tok = "E30" -> IntVal(30)
      [] tok = "E40" -> IntVal(40)
      [] tok = "E80" -> IntVal(80)
      [] tok = "E90" -> IntVal(90)
      [] tok = "N'x'" -> StrVal(<<"x">>)
      [] tok = "N' x '" -> StrVal(<<" ", "x", " ">>)
      [] tok = "N''" -> StrVal(<<>>)
      [] tok = "N' '" -> StrVal(<<" ">>)
      [] tok = "Nnull" -> NullVal
      [] tok = "N7" -> IntVal(7)

IsObjectText(t) ==
    /\ Len(t) >= 2
    /\ t[1] = "{"
    /\ t[Len(t)] = "}"
    /\ \A i \in 2..(Len(t) - 1) : t[i] \in MemberTokens \cup WS

Parsed(type, members) == [exc |-> FALSE, msg |-> <<>>, type |-> type, members |-> members]

\* the JSON text t, without surrounding whitespace
JsonText(t) ==
    IF t = <<"[]">> THEN Parsed("list", <<>>)
    ELSE IF t = <<"7">> THEN Parsed("int", <<>>)
    ELSE IF IsObjectText(t)
    THEN Parsed("dict", SelectSeq(t, LAMBDA tok : tok \in MemberTokens))
    ELSE Raise("JSONDecodeError", 41)

\* json.loads(content): surrounding and inner whitespace is insignificant; an
\* object is "{" members "}"; anything else that is not a JSON text raises
\* JSONDecodeError ("Expecting value: line 1 column 1 (char 0)", 41 characters)
json_loads(content) == JsonText(strip(content))

LastOrDefault(hits, default) ==
    IF hits = <<>> THEN default ELSE MemberVal(hits[Len(hits)])

\* data.get(key, default) on a parsed object: the last member with that key wins
dict_get(members, key, default) ==
    LastOrDefault(SelectSeq(members, LAMBDA tok : MemberKey(tok) = key), default)

Digits == <<"0", "1", "2", "3", "4", "5", "6", "7", "8", "9">>
IsDigit(c) == \E d \in 1..10 : Digits[d] = c
DigitVal(c) == (CHOOSE d \in 1..10 : Digits[d] = c) - 1

RECURSIVE DecimalVal(_)
DecimalVal(s) ==
    IF s = <<>> THEN 0
    ELSE 10 * DecimalVal(SubSeq(s, 1, Len(s) - 1)) + DigitVal(s[Len(s)])

IntOk(k) == [exc |-> FALSE, msg |-> <<>>, n |-> k]
IntError(tag, len) == [exc |-> TRUE, msg |-> Msg(tag, len), n |-> 0]

\* int(s) of a str: t is s without surrounding whitespace, an optional sign
\* and decimal digits; "invalid literal for int() with base 10: 's'" otherwise
IntOfText(t, s) ==
    IF t # <<>> /\ Head(t) = "-" /\ Len(t) > 1 /\ \A i \in 2..Len(t) : IsDigit(t[i])
    THEN IntOk(0 - DecimalVal(Tail(t)))
    ELSE IF t # <<>> /\ \A i \in 1..Len(t) : IsDigit(t[i])
    THEN IntOk(DecimalVal(t))
    ELSE IntError("ValueError", 42 + Len(s))

\* int(v): an int is itself, a float is truncated toward zero, a str is parsed
\* as a decimal literal (ValueError otherwise), None is a TypeError
int(v) ==
    CASE v.type = "int" -> IntOk(v.n)
      [] v.type = "float" ->
            IntOk(IF v.n >= 0 THEN v.n \div 10 ELSE 0 - ((0 - v.n) \div 10))
      [] v.type = "str" -> IntOfText(strip(v.s), v.s)
      [] OTHER -> IntError("TypeError", 85)

----------------------------------------------------------------------------
(* llm_edit_score *)

Fence == <<"BT", "BT", "BT">>
FenceJson == <<"BT", "BT", "BT", "j", "s", "o", "n">>

ParseErrorPrefix ==
    <<"L", "L", "M", " ", "p", "a", "r", "s", "e", " ", "e", "r", "r", "o", "r", ":", " ">>
NoIssuesNote ==
    <<"N", "o", " ", "s", "p", "e", "c", "i", "f", "i", "c", " ",
      "i", "s", "s", "u", "e", "s", " ", "n", "o", "t", "e", "d">>

FallbackEffort == 50
MsgLimit == 50

\* lines 137-138
StripOpen(c) == IF startswith(c, FenceJson) THEN SubSeq(c, 8, Len(c)) ELSE c
\* lines 139-140
StripClose(c) == IF endswith(c, Fence) THEN SubSeq(c, 1, Len(c) - 3) ELSE c
\* lines 146-149: content[start:end] is empty when the last "}" is before the
\* first "{"
CutBraces(c) ==
    IF find(c, "{") # 0 /\ find(c, "}") # 0
    THEN SubSeq(c, find(c, "{"), rfind(c, "}"))
    ELSE c

\* Extract without the cut from the first "{" to the last "}"
Extract_no_braces(content0) == strip(StripClose(StripOpen(content0)))

\* lines 137-149: strip the fence, strip whitespace, cut from the first "{" to
\* the last "}"
Extract(content0) == CutBraces(strip(StripClose(StripOpen(content0))))

Failed(msg) == [exc |-> TRUE, msg |-> msg, effort |-> 0, note |-> <<>>]

\* lines 156-162
Validated(edit_effort, notes) ==
    [exc |-> FALSE, msg |-> <<>>,
     effort |-> max(0, min(100, edit_effort)),
     note |-> IF notes = <<>> THEN NoIssuesNote ELSE notes]

\* lines 154-158: effort is int(data.get("edit_effort", 50)), nv is
\* data.get("notes", ""), of which .strip() is an AttributeError unless a str
ValidateFields(effort, nv) ==
    IF effort.exc THEN Failed(effort.msg)
    ELSE IF nv.type = "null" THEN Failed(Msg("AttributeError", 42))
    ELSE IF nv.type # "str" THEN Failed(Msg("AttributeError", 37))
    ELSE Validated(effort.n, strip(nv.s))

\* lines 151-162 on what json.loads gave: .get is an AttributeError unless
\* data is a dict
ValidateData(data) ==
    IF data.exc THEN Failed(data.msg)
    ELSE IF data.type = "list" THEN Failed(Msg("AttributeError", 36))
    ELSE IF data.type # "dict" THEN Failed(Msg("AttributeError", 35))
    ELSE ValidateFields(int(dict_get(data.members, "edit_effort", IntVal(FallbackEffort))),
                        dict_get(data.members, "notes", StrVal(<<>>)))

\* lines 135-162, once the content is there
Validate(content) == ValidateData(json_loads(Extract(content)))

\* the body of the try block: the call of the judgment capability gives r
JudgeTry(r) ==
    CASE r.kind = "raise" -> Failed(r.msg)
      [] r.kind = "none" -> Failed(Msg("AttributeError", 42))
      [] OTHER -> Validate(strip(r.content))

Returned(effort, note) == [raised |-> FALSE, effort |-> effort, note |-> note]

\* lines 164-167
Except(out) ==
    IF out.exc
    THEN Returned(FallbackEffort, ParseErrorPrefix \o Take(out.msg, MsgLimit))
    ELSE Returned(out.effort, out.note)

\* an except clause for json.JSONDecodeError only
ExceptJsonOnly(out) ==
    IF out.exc /\ out.msg = Msg("JSONDecodeError", 41)
    THEN Returned(FallbackEffort, ParseErrorPrefix \o Take(out.msg, MsgLimit))
    ELSE IF out.exc THEN [raised |-> TRUE, effort |-> 0, note |-> <<>>]
    ELSE Returned(out.effort, out.note)

\* llm_edit_score catching json.JSONDecodeError only
llm_edit_score_narrow(r) == ExceptJsonOnly(JudgeTry(r))

llm_edit_score(r) == Except(JudgeTry(r))

----------------------------------------------------------------------------
(* grammar_error_score, readability_score, composite_score *)

\* grammar_error_score without the factor 10 of line 73
grammar_error_score_unscaled(matches, nwords) ==
    LET words == max(nwords, 1)
        errors_per_1k == (matches * 1000 * 100) \div words
    IN  max(min(errors_per_1k, 10000), 0)

\* matches = len(tool.check(text)), nwords = len(text.split()); hundredths
grammar_error_score(matches, nwords) ==
    LET words == max(nwords, 1)
        errors_per_1k_x10 == (matches * 1000 * 10 * 100) \div words
    IN  max(min(errors_per_1k_x10, 10000), 0)

ReadabilityDefault == 5000

\* readability_score without the clamp of line 93
readability_score_unclamped(prof) ==
    IF prof.readErr THEN ReadabilityDefault
    ELSE LET flesch_inverted == max(0, min(1000, 1000 - prof.flesch))
             grade_component == max(prof.fk - 80, 0) * 10
         IN  grade_component * 6 + flesch_inverted * 4

\* prof.fk and prof.flesch are what textstat gives for the text (tenths);
\* prof.readErr: textstat raises on this text; hundredths
readability_score(prof) ==
    IF prof.readErr THEN ReadabilityDefault
    ELSE LET flesch_inverted == max(0, min(1000, 1000 - prof.flesch))
             grade_component == max(prof.fk - 80, 0) * 10
             final_score == grade_component * 6 + flesch_inverted * 4
         IN  max(min(final_score, 10000), 0)

\* composite_score without the readability term
composite_score_no_read(llm, grammar, readability, w) ==
    w[1] * (llm * 100) + w[2] * grammar

\* llm in points, grammar and readability in hundredths, w in tenths; thousandths
composite_score(llm, grammar, readability, w) ==
    w[1] * (llm * 100) + w[2] * grammar + w[3] * readability

----------------------------------------------------------------------------
(* process_file *)

NoFile == <<>>
NoResult == <<>>

\* cache_dir / (path.stem + ".json")
cached_name(path) == path.stem

\* json.dumps(result): the members in the order of the dict
json_dumps(result) ==
    << <<"file", result.file>>,
       <<"llm_score", result.llm_score>>,
       <<"grammar_score", result.grammar_score>>,
       <<"readability_score", result.readability_score>>,
       <<"composite_score", result.composite_score>>,
       <<"notes", result.notes>> >>

\* a read of the cache file that takes the two float sub-scores for each other
cache_loads_swapped(text) ==
    LET get(k) == text[CHOOSE i \in 1..Len(text) : text[i][1] = k][2]
    IN  [file |-> get("file"),
         llm_score |-> get("llm_score"),
         grammar_score |-> get("readability_score"),
         readability_score |-> get("grammar_score"),
         composite_score |-> get("composite_score"),
         notes |-> get("notes")]

\* json.loads(cached.read_text()): the dict of the members of the text
cache_loads(text) ==
    LET get(k) == text[CHOOSE i \in 1..Len(text) : text[i][1] = k][2]
    IN  [file |-> get("file"),
         llm_score |-> get("llm_score"),
         grammar_score |-> get("grammar_score"),
         readability_score |-> get("readability_score"),
         composite_score |-> get("composite_score"),
         notes |-> get("notes")]

Outcome(raised, result, c, invoked) ==
    [raised |-> raised, result |-> result, cache |-> c, invoked |-> invoked]

\* lines 186-195
Result(path, j, grammar, read, w) ==
    [file |-> path,
     llm_score |-> j.effort,
     grammar_score |-> grammar,
     readability_score |-> read,
     composite_score |-> composite_score(j.effort, grammar, read, w),
     notes |-> j.note]

\* lines 196-197
Store(path, c, result) ==
    Outcome(FALSE, result, [c EXCEPT ![cached_name(path)] = json_dumps(result)],
            {"llm", "grammar", "readability"})

\* lines 183-197, j being what llm_edit_score returned
Compute(path, w, c, prof, j, toolRaises) ==
    IF j.raised THEN Outcome(TRUE, NoResult, c, {"llm"})
    ELSE IF toolRaises THEN Outcome(TRUE, NoResult, c, {"llm", "grammar"})
    ELSE Store(path, c, Result(path, j, grammar_error_score(prof.matches, prof.words),
                               readability_score(prof), w))

\* lines 183-197 with a grammar score of 0 when tool.check raises
ComputeFallback(path, w, c, prof, j, toolRaises) ==
    IF j.raised THEN Outcome(TRUE, NoResult, c, {"llm"})
    ELSE Store(path, c, Result(path, j,
                               IF toolRaises THEN 0
                               ELSE grammar_error_score(prof.matches, prof.words),
                               readability_score(prof), w))

\* process_file with a grammar score of 0 when tool.check raises
process_file_fallback(path, w, c, prof, r, toolRaises) ==
    IF c[cached_name(path)] # NoFile
    THEN Outcome(FALSE, cache_loads(c[cached_name(path)]), c, {})
    ELSE ComputeFallback(path, w, c, prof, llm_edit_score(r), toolRaises)

\* One call process_file(path, weights, cache_dir, model).  c is the cache,
\* prof what the text of path is to the capabilities, r the outcome of the
\* judgment call and toolRaises whether tool.check raises, should the call
\* get that far.  Gives whether the call raised, the value returned, the
\* cache afterwards and the capabilities invoked.
process_file(path, w, c, prof, r, toolRaises) ==
    IF c[cached_name(path)] # NoFile
    THEN Outcome(FALSE, cache_loads(c[cached_name(path)]), c, {})
    ELSE Compute(path, w, c, prof, llm_edit_score(r), toolRaises)

----------------------------------------------------------------------------
(* main *)

\* an ascending sort read backwards: equal keys come out in reverse order
RECURSIVE sort_results_reversed(_)
sort_results_reversed(rs) ==
    IF rs = <<>> THEN <<>>
    ELSE LET front == sort_results_reversed(SubSeq(rs, 1, Len(rs) - 1))
             r == rs[Len(rs)]
             k == Cardinality({i \in 1..Len(front) :
                                 front[i].composite_score > r.composite_score})
         IN  SubSeq(front, 1, k) \o <<r>> \o SubSeq(front, k + 1, Len(front))

\* results.sort(key=lambda r: r["composite_score"], reverse=True): list.sort is
\* stable, and with reverse=True equal keys keep their original order
RECURSIVE sort_results(_)
sort_results(rs) ==
    IF rs = <<>> THEN <<>>
    ELSE LET front == sort_results(SubSeq(rs, 1, Len(rs) - 1))
             r == rs[Len(rs)]
             k == Cardinality({i \in 1..Len(front) :
                                 front[i].composite_score >= r.composite_score})
         IN  SubSeq(front, 1, k) \o <<r>> \o SubSeq(front, k + 1, Len(front))

\* lines 222-231: the glob result without the files under an excluded folder
Globbed(excl) == SelectSeq(listing, LAMBDA p : p.dir \notin excl)

Dirs == {"a", "b"}
AllStems == {"doc1", "doc2", "doc3", "doc4"}
Caps == {"llm", "grammar", "readability"}
WeightChoices == {<<6, 2, 2>>, <<10, 10, 10>>}

NoReply == [kind |-> "", msg |-> <<>>, content |-> <<>>]

\* main up to the scoring loop, with at least one file
StartRun ==
    /\ pc # "running"
    /\ runs < MaxRuns
    /\ \E excl \in SUBSET Dirs, w \in WeightChoices :
          /\ Globbed(excl) # <<>>
          /\ md_files' = Globbed(excl)
          /\ weights' = w
    /\ pc' = "running"
    /\ idx' = 0
    /\ results' = <<>>
    /\ runs' = runs + 1
    /\ reply' = NoReply
    /\ UNCHANGED <<listing, docs, cache, calls>>

\* main, line 233: sys.exit("No .md files found in the specified folder.")
ExitNoFiles ==
    /\ pc # "running"
    /\ runs < MaxRuns
    /\ \E excl \in SUBSET Dirs, w \in WeightChoices :
          /\ Globbed(excl) = <<>>
          /\ md_files' = <<>>
          /\ weights' = w
    /\ pc' = "exited"
    /\ idx' = 0
    /\ results' = <<>>
    /\ runs' = runs + 1
    /\ reply' = NoReply
    /\ UNCHANGED <<listing, docs, cache, calls>>

\* the effect of one call of process_file, out, on main
Advance(path, r, out) ==
    /\ cache' = out.cache
    /\ calls' = [cap \in Caps |->
                    IF cap \in out.invoked
                    THEN [calls[cap] EXCEPT ![path.stem] = @ + 1]
                    ELSE calls[cap]]
    /\ reply' = IF "llm" \in out.invoked THEN r ELSE reply
    /\ IF out.raised
       THEN /\ pc' = "aborted"
            /\ UNCHANGED <<idx, results>>
       ELSE /\ pc' = pc
            /\ idx' = idx + 1
            /\ results' = Append(results, out.result)
    /\ UNCHANGED <<listing, docs, md_files, weights, runs>>

\* one iteration of the loop of lines 239-240; an exception out of
\* process_file ends main
Iterate(r, toolRaises) ==
    Advance(md_files[idx + 1], r,
            process_file(md_files[idx + 1], weights, cache, docs[md_files[idx + 1]],
                         r, toolRaises))

InLoop == pc = "running" /\ idx < Len(md_files)

\* the file has a cache entry
ProcessHit ==
    /\ InLoop
    /\ cache[cached_name(md_files[idx + 1])] # NoFile
    /\ Iterate(NoReply, FALSE)

\* the file has no cache entry and tool.check returns
ProcessMiss ==
    /\ InLoop
    /\ cache[cached_name(md_files[idx + 1])] = NoFile
    /\ \E r \in docs[md_files[idx + 1]].replies : Iterate(r, FALSE)

\* the file has no cache entry and tool.check raises
ProcessRaise ==
    /\ InLoop
    /\ cache[cached_name(md_files[idx + 1])] = NoFile
    /\ \E r \in docs[md_files[idx + 1]].replies : Iterate(r, TRUE)

\* main, line 242, after the loop
Sort ==
    /\ pc = "running"
    /\ idx = Len(md_files)
    /\ results' = sort_results(results)
    /\ pc' = "done"
    /\ UNCHANGED <<listing, docs, cache, md_files, idx, weights, calls, reply, runs>>

Next ==
    \/ StartRun
    \/ ExitNoFiles
    \/ ProcessHit
    \/ ProcessMiss
    \/ ProcessRaise
    \/ Sort

----------------------------------------------------------------------------
(* The folders the runs are made on *)

Path(dir, stem) == [dir |-> dir, stem |-> stem]

TextReply(content) == [kind |-> "text", msg |-> <<>>, content |-> content]
RaiseReply(n) == [kind |-> "raise", msg |-> Msg("APIError", n), content |-> <<>>]
NoneReply == [kind |-> "none", msg |-> <<>>, content |-> <<>>]

Obj(members) == <<"{">> \o members \o <<"}">>

Profile(replies, matches, words, fk, flesch, readErr) ==
    [replies |-> replies, matches |-> matches, words |-> words,
     fk |-> fk, flesch |-> flesch, readErr |-> readErr]

InitRest ==
    /\ cache = [s \in AllStems |-> NoFile]
    /\ pc = "idle"
    /\ md_files = <<>>
    /\ idx = 0
    /\ results = <<>>
    /\ weights = <<6, 2, 2>>
    /\ calls = [cap \in Caps |-> [s \in AllStems |-> 0]]
    /\ reply = NoReply
    /\ runs = 0

\* a folder with two subfolders; a/doc1.md and b/doc1.md share their stem
MainDocs ==
    (Path("a", "doc1") :> Profile({TextReply(Obj(<<"E80", "N'x'">>)), RaiseReply(60)},
                                  1, 500, 50, 750, TRUE))
    @@ (Path("a", "doc2") :> Profile({TextReply(FenceJson \o <<"NL">> \o Obj(<<"E150">>)
                                                  \o <<"NL">> \o Fence),
                                      TextReply(Obj(<<"E-5", "N''">>))},
                                     3, 100, 300, 0 - 200, FALSE))
    @@ (Path("b", "doc1") :> Profile({TextReply(<<"x", " ", "x">>)}, 0, 0, 0 - 20, 1210, FALSE))

MainListings ==
    { <<Path("a", "doc1"), Path("a", "doc2"), Path("b", "doc1")>>,
      <<Path("b", "doc1"), Path("a", "doc2"), Path("a", "doc1")>> }

Init ==
    /\ listing \in MainListings
    /\ docs = MainDocs
    /\ InitRest

Spec == Init /\ [][Next]_vars

----------------------------------------------------------------------------
(* A folder of two documents, the first with every outcome of the judgment
   capability *)

ReplyPrefixes ==
    { <<>>, <<" ">>, FenceJson \o <<"NL">>, Fence \o <<"NL">>,
      <<"x", "x", " ">>, <<"x", "{", "x", " ">>, <<"}", " ">> }
ReplySuffixes ==
    { <<>>, <<"NL">>, <<"NL">> \o Fence, <<" ", "x">>, <<" ", "}">> }

JudgeEfforts == {<<>>, <<"E65">>, <<"E0">>, <<"E150">>, <<"E-5">>, <<"E65.7">>,
                 <<"E'70'">>, <<"E'abc'">>, <<"Enull">>}
JudgeNotes == {<<>>, <<"N'x'">>, <<"N' x '">>, <<"N''">>, <<"N' '">>, <<"Nnull">>, <<"N7">>}

ReplyBodies ==
    { Obj(e \o <<"N'x'">>) : e \in JudgeEfforts }
    \cup { Obj(<<"E65">> \o n) : n \in JudgeNotes }
    \cup { Obj(<<"N'x'", " ", "E65">>), Obj(<<"E0", "E65", "N''", "N'x'">>),
           Obj(<<"E150", "N' x '">>), Obj(<<"Enull", "Nnull">>) }
    \cup { <<"[]">>, <<"7">>, <<"x">>, <<>>, <<"{", "E65">> }

Responses ==
    { TextReply(a \o b \o c) : a \in ReplyPrefixes, b \in ReplyBodies, c \in ReplySuffixes }
    \cup { RaiseReply(0), RaiseReply(7), RaiseReply(50), RaiseReply(51), NoneReply }

JudgeDocs ==
    (Path("a", "doc1") :> Profile(Responses, 1, 500, 50, 750, FALSE))
    @@ (Path("a", "doc2") :> Profile({TextReply(Obj(<<"E65", "N'x'">>))},
                                     1, 500, 50, 750, FALSE))

InitJudge ==
    /\ listing = << Path("a", "doc1"), Path("a", "doc2") >>
    /\ docs = JudgeDocs
    /\ InitRest

SpecJudge == InitJudge /\ [][Next]_vars

----------------------------------------------------------------------------
(* A folder of two documents, for every match count and word count *)

WordCounts == {0, 1, 99, 100, 101, 250, 1000}

GrammarProfiles ==
    { Profile({TextReply(Obj(<<"E65", "N'x'">>))}, m, w, 50, 750, FALSE) :
        m \in 0..MaxMatches, w \in WordCounts }

InitGrammar ==
    /\ listing = << Path("a", "doc1"), Path("a", "doc2") >>
    /\ docs \in [{Path("a", "doc1"), Path("a", "doc2")} -> GrammarProfiles]
    /\ InitRest

SpecGrammar == InitGrammar /\ [][Next]_vars

----------------------------------------------------------------------------
(* Folders of three and four documents with given sub-scores *)

\* a text whose sub-scores are (j, g, r) points: the reply has edit_effort j,
\* m matches in w words give g, and the textstat metrics fk, flesch give r
Scored(tok, m, w, fk, flesch) ==
    Profile({TextReply(Obj(<<tok, "N'x'">>))}, m, w, fk, flesch, FALSE)

P_80_20_10 == Scored("E80", 2, 1000, 50, 750)
P_40_50_60 == Scored("E40", 5, 1000, 180, 1000)
P_10_5_5 == Scored("E10", 1, 2000, 50, 875)
P_30_30_30 == Scored("E30", 3, 1000, 50, 250)
P_90_90_90 == Scored("E90", 9, 1000, 230, 1000)
P_10_10_10 == Scored("E10", 1, 1000, 50, 750)

RankListings ==
    { <<Path("a", "doc1"), Path("a", "doc2"), Path("a", "doc3")>>,
      <<Path("a", "doc1"), Path("a", "doc2"), Path("a", "doc3"), Path("a", "doc4")>> }

RankChoices(p) ==
    CASE p.stem = "doc1" -> {P_80_20_10, P_30_30_30, P_90_90_90}
      [] p.stem = "doc2" -> {P_40_50_60, P_90_90_90, P_30_30_30}
      [] p.stem = "doc3" -> {P_10_5_5, P_90_90_90, P_10_10_10}
      [] OTHER -> {P_10_10_10, P_90_90_90, P_30_30_30}

Range(s) == {s[i] : i \in 1..Len(s)}

InitRank ==
    /\ listing \in RankListings
    /\ docs \in {d \in [Range(listing) -> UNION {RankChoices(p) : p \in Range(listing)}] :
                    \A p \in Range(listing) : d[p] \in RankChoices(p)}
    /\ InitRest

SpecRank == InitRank /\ [][Next]_vars

----------------------------------------------------------------------------
(* Properties *)

Last(seq) == seq[Len(seq)]

\* the records there are: those of the run and those of the cache
Records ==
    Range(results) \cup {cache_loads(cache[s]) : s \in {t \in AllStems : cache[t] # NoFile}}

HitNext == InLoop /\ cache[cached_name(md_files[idx + 1])] # NoFile

\* C1: when the identifier of the file at hand has a cache entry, process_file
\* returns the record that was stored (the record whose serialisation is the
\* entry), whatever the weights of this run, invokes no capability and leaves
\* the cache alone; a record returned earlier in the run for the same
\* identifier is identical to it.
C1_CacheHitVerbatim ==
    [][HitNext =>
          LET stem == cached_name(md_files[idx + 1])
              rec == Last(results')
          IN  /\ Len(results') = Len(results) + 1
              /\ json_dumps(rec) = cache[stem]
              /\ cache' = cache
              /\ calls' = calls
              /\ \A i \in 1..Len(results) :
                    cached_name(md_files[i]) = stem => results[i] = rec]_vars

\* a record was taken from the cache whose composite is not the one the
\* weights of this run give
C1_Witness ==
    /\ pc = "running"
    /\ \E i \in 1..Len(results) :
          /\ calls["llm"][cached_name(md_files[i])] = 1
          /\ results[i].composite_score #
                composite_score(results[i].llm_score, results[i].grammar_score,
                                results[i].readability_score, weights)

\* C2: over any sequence of runs the judgment capability is invoked at most
\* once per document identifier.
C2_JudgedAtMostOnce == \A s \in AllStems : calls["llm"][s] <= 1

InRange(x, hi) == 0 <= x /\ x <= hi

\* C3: every record has all four numeric fields within [0,100].
C3_AllFieldsInRange ==
    \A r \in Records :
        /\ InRange(r.llm_score, 100)
        /\ InRange(r.grammar_score, 10000)
        /\ InRange(r.readability_score, 10000)
        /\ InRange(r.composite_score, 100000)

\* C3, amended: every record has its three sub-scores within [0,100] and a
\* composite that is not negative; a record computed by this call has a
\* composite of at most 100 * (w1 + w2 + w3) for the weights w of the call.
C3_SubScoresInRange ==
    /\ [](\A r \in Records :
            /\ InRange(r.llm_score, 100)
            /\ InRange(r.grammar_score, 10000)
            /\ InRange(r.readability_score, 10000)
            /\ r.composite_score >= 0)
    /\ [][(Len(results') > Len(results) /\ cache' # cache) =>
            Last(results').composite_score
                <= 10000 * (weights[1] + weights[2] + weights[3])]_vars

\* a record with every sub-score at 100 was computed under weights of sum 1
\* and its composite is 100; another has a composite above 100
C3_Witness ==
    /\ \E r \in Records :
          /\ r.llm_score = 100 /\ r.grammar_score = 10000 /\ r.readability_score = 10000
          /\ r.composite_score = 100000
    /\ \E r \in Records : r.composite_score > 100000

ScenarioDocs ==
    (Path("a", "doc1") :> P_80_20_10)
    @@ (Path("a", "doc2") :> P_40_50_60)
    @@ (Path("a", "doc3") :> P_10_5_5)

\* the first run, on an empty cache, over the three documents of the scenario
\* with weights (0.6, 0.2, 0.2), is through
ScenarioDone ==
    /\ docs = ScenarioDocs
    /\ weights = <<6, 2, 2>>
    /\ runs = 1
    /\ pc = "done"

ScenarioSubScores ==
    /\ Len(results) = 3
    /\ \E r \in Range(results) :
          r.llm_score = 80 /\ r.grammar_score = 2000 /\ r.readability_score = 1000
    /\ \E r \in Range(results) :
          r.llm_score = 40 /\ r.grammar_score = 5000 /\ r.readability_score = 6000
    /\ \E r \in Range(results) :
          r.llm_score = 10 /\ r.grammar_score = 500 /\ r.readability_score = 500

ScenarioRanking(c1, c2, c3) ==
    /\ Len(results) = 3
    /\ results[1].file = Path("a", "doc1") /\ results[1].composite_score = c1
    /\ results[2].file = Path("a", "doc2") /\ results[2].composite_score = c2
    /\ results[3].file = Path("a", "doc3") /\ results[3].composite_score = c3

\* C4: the scenario gives the composites 52.0, 46.0 and 8.0 and the ranking
\* doc1, doc2, doc3.
C4_Scenario52 == ScenarioDone => ScenarioRanking(52000, 46000, 8000)

\* C4, amended: the scenario gives the composites 54.0, 46.0 and 8.0 and the
\* ranking doc1, doc2, doc3.
C4_Scenario54 == ScenarioDone => ScenarioRanking(54000, 46000, 8000)

C4_Witness == ScenarioDone /\ ScenarioSubScores

IsStableDescSort(in, out) ==
    /\ Len(out) = Len(in)
    /\ \E p \in Permutations(1..Len(in)) :
          /\ \A i \in 1..Len(in) : out[i] = in[p[i]]
          /\ \A i, j \in 1..Len(in) :
                i < j => /\ out[i].composite_score >= out[j].composite_score
                         /\ out[i].composite_score = out[j].composite_score => p[i] < p[j]

Composites(rs) == [i \in 1..Len(rs) |-> rs[i].composite_score]

\* C5: the final ranking is a stable descending sort of the collected records
\* by composite score: a permutation of them, non-increasing, ties in the
\* order of the input; composites [30, 90, 90, 10] give second, third, first,
\* fourth.
C5_StableDescendingSort ==
    [][(pc = "running" /\ pc' = "done") =>
          /\ IsStableDescSort(results, results')
          /\ Composites(results) = <<30000, 90000, 90000, 10000>> =>
                results' = <<results[2], results[3], results[1], results[4]>>]_vars

C5_Witness ==
    /\ pc = "done"
    /\ Composites(results) = <<90000, 90000, 30000, 10000>>
    /\ [i \in 1..Len(results) |-> results[i].file.stem] = <<"doc2", "doc3", "doc1", "doc4">>

\* the message of the exception the judgment outcome r ends in
FailureMessage(r) == IF r.kind = "raise" THEN r.msg ELSE JudgeTry(r).msg

\* C6: whenever the judgment call, the parse or the validation fails,
\* llm_edit_score does not raise (the grammar check is reached) and the record
\* has effort 50 and the note "LLM parse error: " plus at most the first 50
\* characters of the message; once the grammar check has returned, the run
\* goes on with the next document.
C6_JudgmentFailSoft ==
    [][(calls'["llm"] # calls["llm"]) =>
          /\ calls'["grammar"] # calls["grammar"]
          /\ calls'["readability"] # calls["readability"] =>
                (pc' = "running" /\ Len(results') = Len(results) + 1)
          /\ (JudgeTry(reply').exc /\ Len(results') > Len(results)) =>
                LET rec == Last(results')
                    m == FailureMessage(reply')
                IN  /\ rec.llm_score = 50
                    /\ rec.notes = ParseErrorPrefix
                                     \o [i \in 1..(IF Len(m) < 50 THEN Len(m) ELSE 50) |-> m[i]]
                    /\ Len(rec.notes) <= 17 + 50]_vars

\* the judgment of the first document failed with a message of more than 50
\* characters and the second document was processed all the same
C6_Witness ==
    /\ pc = "done"
    /\ runs = 1
    /\ Len(results) = 2
    /\ \E i \in 1..2 :
          /\ results[i].file = Path("a", "doc1")
          /\ results[i].llm_score = 50
          /\ Len(results[i].notes) = 67
          /\ SubSeq(results[i].notes, 1, 17) = ParseErrorPrefix

\* C7: a failure of the grammar check on a file without cache entry ends the
\* run and leaves the cache as it was; no entry is ever changed or removed,
\* and a file with an entry is served without any capability, a file without
\* one is computed.
C7_GrammarFailurePropagates ==
    [][/\ ProcessRaise => (pc' = "aborted" /\ cache' = cache /\ results' = results)
       /\ \A s \in AllStems : cache[s] # NoFile => cache'[s] = cache[s]
       /\ \A s \in AllStems : cache[s] # NoFile => \A cap \in Caps : calls'[cap][s] = calls[cap][s]
       /\ (InLoop /\ ~HitNext) =>
             calls'["llm"][cached_name(md_files[idx + 1])]
                = calls["llm"][cached_name(md_files[idx + 1])] + 1]_vars

\* the second run is through: it reused an entry written before the first run
\* aborted and computed the document whose grammar check had failed
C7_Witness ==
    /\ pc = "done"
    /\ runs = 2
    /\ \E s, t \in AllStems :
          /\ calls["grammar"][s] = 2 /\ calls["readability"][s] = 1
          /\ calls["grammar"][t] = 1 /\ calls["readability"][t] = 1
          /\ \E i, j \in 1..Len(results) :
                results[i].file.stem = s /\ results[j].file.stem = t

\* the object the payload of r parses to, if it does
ParsedObject(r) == json_loads(Extract(strip(r.content)))
ParsesAsObject(r) ==
    r.kind = "text" /\ ~ParsedObject(r).exc /\ ParsedObject(r).type = "dict"

Clamp(x, lo, hi) == IF x < lo THEN lo ELSE IF x > hi THEN hi ELSE x

Absent == [type |-> "absent", n |-> 0, s |-> <<>>]
EffortField(r) == dict_get(ParsedObject(r).members, "edit_effort", Absent)
NotesField(r) == dict_get(ParsedObject(r).members, "notes", Absent)

JudgedRecord == calls'["llm"] # calls["llm"] /\ Len(results') > Len(results)

\* {"edit_effort": 65, "notes": "x"}, bare, inside a markdown fence or
\* surrounded by prose, gives (65, "x")
WrappedExample ==
    { TextReply(a \o Obj(<<"E65", "N'x'">>) \o c) :
        a \in {<<>>, FenceJson \o <<"NL">>, Fence \o <<"NL">>, <<"x", "x", " ">>},
        c \in {<<>>, <<"NL">> \o Fence, <<" ", "x">>} }
ExampleResult ==
    (JudgedRecord /\ reply' \in WrappedExample) =>
        (Last(results').llm_score = 65 /\ Last(results').notes = <<"x">>)

\* C8: for a payload that parses as an object the effort is the edit_effort
\* value clamped to [0,100] (50 when missing) and the note is the notes value,
\* or "No specific issues noted" when notes is missing or empty; the example
\* gives (65, "x") however it is wrapped.
C8_ParsedObjectResult ==
    [][/\ ExampleResult
       /\ (JudgedRecord /\ ParsesAsObject(reply')) =>
          LET e == EffortField(reply')
              n == NotesField(reply')
              rec == Last(results')
          IN  /\ CASE e.type = "absent" -> rec.llm_score = 50
                   [] e.type = "int" -> rec.llm_score = Clamp(e.n, 0, 100)
                   [] e.type = "float" -> rec.llm_score * 10 = Clamp(e.n, 0, 1000)
                   [] OTHER -> FALSE
              /\ CASE n.type = "absent" -> rec.notes = NoIssuesNote
                   [] n.type = "str" ->
                        rec.notes = IF n.s = <<>> THEN NoIssuesNote ELSE n.s
                   [] OTHER -> FALSE]_vars

\* C8, amended: for a payload that parses as an object whose edit_effort is
\* missing or an integer and whose notes is missing or a string, the effort is
\* edit_effort clamped to [0,100] (50 when missing) and the note is notes
\* without its surrounding whitespace, or "No specific issues noted" when
\* notes is missing or nothing but whitespace; the example gives (65, "x")
\* however it is wrapped.
C8_WellTypedObjectResult ==
    [][/\ ExampleResult
       /\ (/\ JudgedRecord
           /\ ParsesAsObject(reply')
           /\ EffortField(reply').type \in {"absent", "int"}
           /\ NotesField(reply').type \in {"absent", "str"}) =>
          LET e == EffortField(reply')
              n == NotesField(reply')
              rec == Last(results')
              core == SelectSeq(n.s, LAMBDA ch : ch \notin WS)
          IN  /\ rec.llm_score = IF e.type = "absent" THEN 50 ELSE Clamp(e.n, 0, 100)
              /\ IF n.type = "absent" \/ core = <<>>
                 THEN rec.notes = NoIssuesNote
                 ELSE /\ rec.notes # <<>>
                      /\ rec.notes[1] \notin WS
                      /\ Last(rec.notes) \notin WS
                      /\ \E a, b \in 0..Len(n.s) :
                            /\ n.s = [i \in 1..a |-> n.s[i]] \o rec.notes
                                       \o [i \in 1..b |-> n.s[Len(n.s) - b + i]]
                            /\ \A i \in 1..a : n.s[i] \in WS
                            /\ \A i \in 1..b : n.s[Len(n.s) - b + i] \in WS]_vars

\* the reply was the object {"edit_effort": 150, "notes": " x "} inside a
\* markdown fence, and the record has effort 100 and note "x"
C8_Witness ==
    /\ pc = "running"
    /\ reply = TextReply(FenceJson \o <<"NL">> \o Obj(<<"E150", "N' x '">>)
                           \o <<"NL">> \o Fence)
    /\ Len(results) = 1
    /\ results[1].llm_score = 100
    /\ results[1].notes = <<"x">>

\* C9: the grammar score of a document with m matches and w = max(words, 1)
\* words is clamp(m / w * 1000 * 10, 0, 100): within [0,100], 0 without
\* matches, 100 from a density of 10 per 1000 words on, below 100 the value of
\* the formula (to the hundredth), and non-decreasing in the density.
C9_GrammarScore ==
    \A r1, r2 \in Range(results) :
        LET m1 == docs[r1.file].matches
            w1 == IF docs[r1.file].words < 1 THEN 1 ELSE docs[r1.file].words
            m2 == docs[r2.file].matches
            w2 == IF docs[r2.file].words < 1 THEN 1 ELSE docs[r2.file].words
            g1 == r1.grammar_score
            g2 == r2.grammar_score
        IN  /\ InRange(g1, 10000)
            /\ m1 = 0 => g1 = 0
            /\ m1 * 1000 >= 10 * w1 => g1 = 10000
            /\ m1 * 1000 < 10 * w1 =>
                  (g1 * w1 <= m1 * 1000000 /\ m1 * 1000000 < (g1 + 1) * w1)
            /\ m1 * w2 <= m2 * w1 => g1 <= g2

\* both documents are scored: one of an empty text with matches, which
\* saturates, one below saturation
C9_Witness ==
    /\ Len(results) = 2
    /\ docs[results[1].file].words = 0
    /\ docs[results[1].file].matches > 0
    /\ results[1].grammar_score = 10000
    /\ results[2].grammar_score > 0
    /\ results[2].grammar_score < 10000

\* C10: in the first run, on an empty cache, the record at a document's
\* position is that document's own record.
C10_OwnRecord ==
    (runs = 1 /\ pc = "running") =>
        \A i \in 1..Len(results) : results[i].file = md_files[i]

====
